---- MODULE Spec2Model ----
(***************************************************************************)
(* A model of src/poisson.hpp: the Gauss-Seidel smoothers, the residual    *)
(* operator, the base case, the recursive multigrid V-cycle with its two   *)
(* scratch arenas, the Multigrid driver and the Poisson problem container. *)
(*                                                                         *)
(* Two specifications:                                                     *)
(*   Spec        the Multigrid driver running V-cycles, one step of        *)
(*               multigrid_v_cycle at a time, with every buffer index the  *)
(*               code addresses recorded;                                  *)
(*   KernelSpec  the numerical kernels and the Poisson container applied   *)
(*               to concrete fields, in exact arithmetic.                  *)
(***************************************************************************)
EXTENDS Integers, Sequences, FiniteSets, TLC

VARIABLES
    \* ---- Multigrid driver and V-cycle (Spec) ----
    L,        \* Multigrid::l, the finest level (p.l)
    F,        \* the smoother type the driver is instantiated with
    h0,       \* p.h, the spacing of the finest level
    cycle,    \* number of operator() invocations so far
    stack,    \* call stack of multigrid_v_cycle, innermost frame last
    mem,      \* contents of p.u, p.f and the driver's r, v, w
    size,     \* number of elements allocated for each buffer
    acc,      \* per buffer, every index addressed so far
    rel,      \* per level, the indices addressed relative to its u, f and r
    carved,   \* the per-level fields el / rl carved in the current cycle
    trace,    \* the operations of the current cycle, in order
    \* ---- kernels and Poisson container (KernelSpec) ----
    kn,       \* n
    kh,       \* h
    ku,       \* u
    kf,       \* f
    kr,       \* r
    ku0,      \* u as constructed
    kf0,      \* f as constructed
    kr0,      \* r as constructed
    kops,     \* number of operations applied so far
    klast,    \* the last operation applied
    rb,       \* progress of a running gauss_seidel_red_black call
    lastres,  \* r as written by the most recent residual() call
    normret,  \* value returned by the most recent norm() call
    errret,   \* value returned by the most recent error() call
    kq        \* modes, as the number 4 * modes / (n - 1) of quarter turns per grid step

vvars == <<L, F, h0, cycle, stack, mem, size, acc, rel, carved, trace>>
kvars == <<kn, kh, ku, kf, kr, ku0, kf0, kr0, kops, klast, rb, lastres, normret,
           errret, kq>>
vars == <<vvars, kvars>>

(***************************************************************************)
(* Bounds of the model.                                                    *)
(***************************************************************************)
MaxL == 3        \* finest levels 1..MaxL
MaxCycles == 2   \* invocations of operator() on one driver
MaxN == 4        \* kernel grids are n x n, 3 <= n <= MaxN
MaxOps == 3      \* kernel operations applied to one problem

(***************************************************************************)
(* The scalar type T.  Values are exact rationals <<num, den>>, den > 0,   *)
(* in lowest terms.  The inputs drawn below are dyadic (integers, and      *)
(* spacings that are powers of two), for which every product and sum the   *)
(* code forms is exact in binary floating point as well.                   *)
(***************************************************************************)
Abs(x) == IF x < 0 THEN -x ELSE x

RECURSIVE GCD(_, _)
GCD(a, b) == IF b = 0 THEN a ELSE GCD(b, a % b)

Rat(a, b) ==
    LET g == GCD(Abs(a), b) IN <<a \div g, b \div g>>

RInt(a) == <<a, 1>>

RAdd(x, y) ==
    LET g == GCD(x[2], y[2])
    IN Rat(x[1] * (y[2] \div g) + y[1] * (x[2] \div g), (x[2] \div g) * y[2])

RNeg(x) == <<-x[1], x[2]>>

RSub(x, y) == RAdd(x, RNeg(y))

RMul(x, y) ==
    LET g1 == GCD(Abs(x[1]), y[2])
        g2 == GCD(Abs(y[1]), x[2])
    IN Rat((x[1] \div g1) * (y[1] \div g2), (x[2] \div g2) * (y[2] \div g1))

\* 1.0 / x, x # 0
RInv(x) == IF x[1] > 0 THEN <<x[2], x[1]>> ELSE <<-x[2], -x[1]>>

RAbs(x) == <<Abs(x[1]), x[2]>>

RZero == RInt(0)

(***************************************************************************)
(* Grid geometry.                                                          *)
(***************************************************************************)
\* 1 << l
Shl1(l) == 2 ^ l

\* int nu = (1 << l) + 1
GridN(l) == Shl1(l) + 1

\* the loop ranges  for (i = 1; i < n - 1; ++i) for (j = 1; j < n - 1; ++j)
InteriorPts(n) == (1 .. n - 2) \X (1 .. n - 2)

\* the same loop nest as the sequence of its iterations, row-major
InteriorSeq(n) ==
    [k \in 1 .. (n - 2) * (n - 2) |->
        <<1 + ((k - 1) \div (n - 2)), 1 + ((k - 1) % (n - 2))>>]

\* the written element  j + i * n
Idx(i, j, n) == j + (i * n)

\* the four neighbours an update reads
Nbrs(i, j, n) ==
    {j + 1 + (i * n), j - 1 + (i * n), j + ((i + 1) * n), j + ((i - 1) * n)}

(***************************************************************************)
(* Index footprints of the kernels, relative to the pointers they are      *)
(* given.  In Spec the buffers hold abstract contents:                     *)
(*   "zero"   the value 0 (memset, or zero-initialised by Poisson),        *)
(*   "data"   a value stored by a kernel,                                  *)
(*   "undef"  malloc'ed and never written.                                 *)
(***************************************************************************)
\* elements of u the smoothers and the residual write (r for the residual)
KernelWrites(n) == {Idx(p[1], p[2], n) : p \in InteriorPts(n)}

\* elements of u a smoother reads
SmootherReadsU(n) == UNION {Nbrs(p[1], p[2], n) : p \in InteriorPts(n)}

\* elements of u the residual reads: the neighbours and the centre
ResidualReadsU(n) == SmootherReadsU(n) \cup KernelWrites(n)

\* elements of f the smoothers and the residual read
KernelReadsF(n) == KernelWrites(n)

\* the extent grid_restrict / grid_prolongate are passed for an n x n field
Extent(n) == 0 .. n * n - 1

\* u[1 + 3 * 1] and f[1 + 3 * 1]
BaseIdx == {1 + 3 * 1}

\* the indices S addressed through the pointer `key` of the call at level l
RelTouch(rl, l, key, S) == [rl EXCEPT ![l][key] = @ \cup S]

Touch(a, buf, base, S) == [a EXCEPT ![buf] = @ \cup {base + k : k \in S}]

Store(m, buf, base, S, val) ==
    [m EXCEPT ![buf] = [k \in DOMAIN @ |-> IF (k - base) \in S THEN val ELSE @[k]]]

\* a read through a pointer; outside the allocation the value is indeterminate
Load(m, buf, k) == IF k \in DOMAIN m[buf] THEN m[buf][k] ELSE "undef"

(***************************************************************************)
(* multigrid_size and the arena layout.                                    *)
(***************************************************************************)
RECURSIVE multigrid_size_loop(_, _)
multigrid_size_loop(i, l) ==
    IF i > l THEN 0
    ELSE GridN(i) * GridN(i) + multigrid_size_loop(i + 1, l)

\* the loop bound written  i < l
multigrid_size_short(l) == multigrid_size_loop(0, l - 1)

multigrid_size(l) == multigrid_size_loop(0, l)

\* int nv = (1 << (l - 1)) + 1
CoarseN(l) == Shl1(l - 1) + 1

\* the offset written  &v[nv]
ElOffsetLinear(v, l) == v + CoarseN(l)

\* no offset at all: el = v, rl = w
ElOffsetBase(v, l) == v

\* T *el = &v[nv * nv];  T *rl = &w[nv * nv]
ElOffset(v, l) == v + CoarseN(l) * CoarseN(l)

\* the spacing handed on unchanged
CoarseHSame(h) == h

\* the spacing handed to the recursive call: 2 * h
CoarseH(h) == RMul(RInt(2), h)

\* the arenas left as they are
MemsetSkipped(m, buf, count) == m

\* memset(buf, 0, num_bytes), num_bytes = count * sizeof(T)
Memset(m, buf, count) == Store(m, buf, 0, 0 .. count - 1, "zero")

Smoothers == {"GaussSeidel", "GaussSeidelRedBlack"}

\* spacings of the finest level
Spacings == {<<1, 4>>, <<1, 2>>, <<1, 1>>}

Buffers == {"pu", "pf", "r", "v", "w"}

(***************************************************************************)
(* Spec: Poisson p(l, h, modes); Multigrid<F, Poisson, T> mg(p); then      *)
(* mg(p) repeatedly.                                                       *)
(***************************************************************************)
KernelIdle ==
    /\ kn = 0 /\ kh = RZero /\ ku = <<>> /\ kf = <<>> /\ kr = <<>>
    /\ ku0 = <<>> /\ kf0 = <<>> /\ kr0 = <<>> /\ kops = 0 /\ klast = "none"
    /\ rb = <<>> /\ lastres = <<>> /\ normret = RZero /\ errret = RZero /\ kq = 0

Init ==
    /\ L \in 1 .. MaxL
    /\ F \in Smoothers
    /\ h0 \in Spacings
    /\ cycle = 0
    /\ stack = <<>>
    /\ size = [pu |-> GridN(L) * GridN(L), pf |-> GridN(L) * GridN(L),
               r |-> GridN(L) * GridN(L),
               v |-> multigrid_size(L), w |-> multigrid_size(L)]
    /\ mem = [pu |-> [k \in 0 .. size.pu - 1 |-> "zero"],
              pf |-> [k \in 0 .. size.pf - 1 |-> "data"],
              r |-> [k \in 0 .. size.r - 1 |-> "undef"],
              v |-> [k \in 0 .. size.v - 1 |-> "undef"],
              w |-> [k \in 0 .. size.w - 1 |-> "undef"]]
    /\ acc = [b \in Buffers |-> {}]
    /\ rel = [l \in 1 .. L |-> [u |-> {}, f |-> {}, r |-> {}]]
    /\ carved = {}
    /\ trace = <<>>
    /\ KernelIdle

Top == stack[Len(stack)]

SetTop(fr) == [stack EXCEPT ![Len(stack)] = fr]

At(pc) == stack # <<>> /\ Top.pc = pc

\* Multigrid::operator()(P& p)
Invoke ==
    /\ stack = <<>>
    /\ cycle < MaxCycles
    /\ cycle' = cycle + 1
    /\ mem' = Memset(Memset(mem, "v", size.v), "w", size.w)
    /\ acc' = Touch(Touch(acc, "v", 0, 0 .. size.v - 1), "w", 0, 0 .. size.w - 1)
    /\ stack' = <<[l |-> L, u |-> [buf |-> "pu", off |-> 0],
                   f |-> [buf |-> "pf", off |-> 0], v |-> 0, w |-> 0,
                   h |-> h0, pc |-> "entry"]>>
    /\ carved' = {}
    /\ trace' = <<>>
    /\ UNCHANGED <<L, F, h0, size, rel, kvars>>

\* if (l == 1) { base_case(u, f, h); return; }
BaseCase ==
    /\ At("entry")
    /\ Top.l = 1
    /\ mem' = Store(mem, Top.u.buf, Top.u.off, BaseIdx, "data")
    /\ acc' = Touch(Touch(acc, Top.u.buf, Top.u.off, BaseIdx),
                    Top.f.buf, Top.f.off, BaseIdx)
    /\ rel' = RelTouch(RelTouch(rel, Top.l, "u", BaseIdx), Top.l, "f", BaseIdx)
    /\ trace' = Append(trace, <<"base_case", Top.l>>)
    /\ stack' = SetTop([Top EXCEPT !.pc = "ret"])
    /\ UNCHANGED <<L, F, h0, cycle, size, carved, kvars>>

\* smoother(u, f, nu, h): either smoother addresses the same elements
Smooth(fr, m) == Store(m, fr.u.buf, fr.u.off, KernelWrites(GridN(fr.l)), "data")

SmoothRel(fr, rl) ==
    RelTouch(RelTouch(rl, fr.l, "u",
                      SmootherReadsU(GridN(fr.l)) \cup KernelWrites(GridN(fr.l))),
             fr.l, "f", KernelReadsF(GridN(fr.l)))

SmoothAcc(fr, a) ==
    Touch(Touch(a, fr.u.buf, fr.u.off,
                SmootherReadsU(GridN(fr.l)) \cup KernelWrites(GridN(fr.l))),
          fr.f.buf, fr.f.off, KernelReadsF(GridN(fr.l)))

\* lines 109-115: nu, nv, el, rl are computed and the field is pre-smoothed
PreSmooth ==
    /\ At("entry")
    /\ Top.l # 1
    /\ carved' = carved \cup
          {[lvl |-> Top.l - 1,
            el |-> {ElOffset(Top.v, Top.l) + k : k \in Extent(CoarseN(Top.l))},
            rl |-> {ElOffset(Top.w, Top.l) + k : k \in Extent(CoarseN(Top.l))}]}
    /\ mem' = Smooth(Top, mem)
    /\ acc' = SmoothAcc(Top, acc)
    /\ rel' = SmoothRel(Top, rel)
    /\ trace' = Append(trace, <<"smoother", Top.l>>)
    /\ stack' = SetTop([Top EXCEPT !.pc = "residual"])
    /\ UNCHANGED <<L, F, h0, cycle, size, kvars>>

\* poisson_residual(r, u, f, nu, h)
Residual ==
    /\ At("residual")
    /\ mem' = Store(mem, "r", 0, KernelWrites(GridN(Top.l)), "data")
    /\ acc' = Touch(Touch(Touch(acc, "r", 0, KernelWrites(GridN(Top.l))),
                          Top.u.buf, Top.u.off, ResidualReadsU(GridN(Top.l))),
                    Top.f.buf, Top.f.off, KernelReadsF(GridN(Top.l)))
    /\ rel' = RelTouch(RelTouch(RelTouch(rel, Top.l, "r", KernelWrites(GridN(Top.l))),
                                 Top.l, "u", ResidualReadsU(GridN(Top.l))),
                        Top.l, "f", KernelReadsF(GridN(Top.l)))
    /\ trace' = Append(trace, <<"poisson_residual", Top.l>>)
    /\ stack' = SetTop([Top EXCEPT !.pc = "restrict"])
    /\ UNCHANGED <<L, F, h0, cycle, size, carved, kvars>>

\* grid_restrict(rl, nv, nv, r, nu, nu, 0.0, 1.0)
Restrict ==
    /\ At("restrict")
    /\ mem' = Store(mem, "w", ElOffset(Top.w, Top.l), Extent(CoarseN(Top.l)), "data")
    /\ acc' = Touch(Touch(acc, "w", ElOffset(Top.w, Top.l), Extent(CoarseN(Top.l))),
                    "r", 0, Extent(GridN(Top.l)))
    /\ rel' = RelTouch(RelTouch(rel, Top.l - 1, "f", Extent(CoarseN(Top.l))),
                        Top.l, "r", Extent(GridN(Top.l)))
    /\ trace' = Append(trace, <<"grid_restrict", Top.l>>)
    /\ stack' = SetTop([Top EXCEPT !.pc = "recurse"])
    /\ UNCHANGED <<L, F, h0, cycle, size, carved, kvars>>

\* multigrid_v_cycle(l - 1, smoother, el, rl, r, v, w, 2 * h)
Recurse ==
    /\ At("recurse")
    /\ stack' = Append(SetTop([Top EXCEPT !.pc = "prolongate"]),
                       [l |-> Top.l - 1,
                        u |-> [buf |-> "v", off |-> ElOffset(Top.v, Top.l)],
                        f |-> [buf |-> "w", off |-> ElOffset(Top.w, Top.l)],
                        v |-> Top.v, w |-> Top.w,
                        h |-> CoarseH(Top.h), pc |-> "entry"])
    /\ UNCHANGED <<L, F, h0, cycle, mem, size, acc, rel, carved, trace, kvars>>

\* grid_prolongate(u, nu, nu, el, nv, nv, 1.0, 1.0)
Prolongate ==
    /\ At("prolongate")
    /\ mem' = Store(mem, Top.u.buf, Top.u.off, Extent(GridN(Top.l)), "data")
    /\ acc' = Touch(Touch(acc, Top.u.buf, Top.u.off, Extent(GridN(Top.l))),
                    "v", ElOffset(Top.v, Top.l), Extent(CoarseN(Top.l)))
    /\ rel' = RelTouch(RelTouch(rel, Top.l, "u", Extent(GridN(Top.l))),
                        Top.l - 1, "u", Extent(CoarseN(Top.l)))
    /\ trace' = Append(trace, <<"grid_prolongate", Top.l>>)
    /\ stack' = SetTop([Top EXCEPT !.pc = "postsmooth"])
    /\ UNCHANGED <<L, F, h0, cycle, size, carved, kvars>>

\* the cycle without its post-smoothing sweep
PostSmoothSkipped ==
    /\ At("postsmooth")
    /\ stack' = SetTop([Top EXCEPT !.pc = "ret"])
    /\ UNCHANGED <<L, F, h0, cycle, mem, size, acc, rel, carved, trace, kvars>>

\* the second smoother(u, f, nu, h), line 129
PostSmooth ==
    /\ At("postsmooth")
    /\ mem' = Smooth(Top, mem)
    /\ acc' = SmoothAcc(Top, acc)
    /\ rel' = SmoothRel(Top, rel)
    /\ trace' = Append(trace, <<"smoother", Top.l>>)
    /\ stack' = SetTop([Top EXCEPT !.pc = "ret"])
    /\ UNCHANGED <<L, F, h0, cycle, size, carved, kvars>>

\* the call returns to its caller
Return ==
    /\ At("ret")
    /\ stack' = SubSeq(stack, 1, Len(stack) - 1)
    /\ UNCHANGED <<L, F, h0, cycle, mem, size, acc, rel, carved, trace, kvars>>

VStep ==
    \/ BaseCase \/ PreSmooth \/ Residual \/ Restrict
    \/ Recurse \/ Prolongate \/ PostSmooth \/ Return

Next == Invoke \/ VStep

Spec == Init /\ [][Next]_vars

(***************************************************************************)
(* Properties of the driver and the V-cycle (checked under Spec).          *)
(***************************************************************************)
CycleDone == stack = <<>> /\ cycle >= 1

\* C1: allocating for L and running V-cycles never addresses an element
\* outside its buffer: every absolute index addressed lies inside the
\* allocation; at each level l >= 2 the fields el and rl end at
\* 2 * nv * nv <= multigrid_size(L), nv = 2^(l-1) + 1; and at level l the
\* pointers u, f and r are addressed only at indices < (2^l + 1)^2.
C1_InBounds ==
    /\ \A b \in Buffers : acc[b] \subseteq 0 .. size[b] - 1
    /\ size.v = multigrid_size(L) /\ size.w = multigrid_size(L)
    /\ size.r = (2 ^ L + 1) * (2 ^ L + 1)
    /\ \A c \in carved :
          /\ c.el \cup c.rl \subseteq 0 .. 2 * (2 ^ c.lvl + 1) * (2 ^ c.lvl + 1) - 1
          /\ 2 * (2 ^ c.lvl + 1) * (2 ^ c.lvl + 1) <= size.v
          /\ 2 * (2 ^ c.lvl + 1) * (2 ^ c.lvl + 1) <= size.w
    /\ \A l \in 1 .. L : \A key \in {"u", "f", "r"} :
          /\ rel[l][key] \subseteq 0 .. (2 ^ l + 1) * (2 ^ l + 1) - 1
          /\ (2 ^ l + 1) * (2 ^ l + 1) <= (2 ^ L + 1) * (2 ^ L + 1)

\* a cycle at L >= 2 has finished, its base case having addressed el[4]
C1_Witness ==
    /\ CycleDone /\ L >= 2
    /\ 4 \in rel[1].u /\ (9 + 4) \in acc.v
    /\ (2 ^ L + 1) * (2 ^ L + 1) - 1 \in rel[L].r

\* C2: the fields carved at different recursion levels of one cycle are
\* pairwise disjoint, in v and in w, and each level has a single field.
C2_Disjoint ==
    \A c1, c2 \in carved :
        /\ c1.lvl = c2.lvl => c1 = c2
        /\ c1.lvl # c2.lvl => c1.el \cap c2.el = {} /\ c1.rl \cap c2.rl = {}

\* two levels have carved their fields and the deepest call is running
C2_Witness ==
    /\ Cardinality(carved) >= 2
    /\ At("entry") /\ Top.l = 1
    /\ \A c \in carved : c.el # {} /\ c.rl # {}

DownOps == <<"smoother", "poisson_residual", "grid_restrict">>

UpOps == <<"grid_prolongate", "smoother">>

\* the operations of one V-cycle at finest level lv, as the sequence
\* down (lv .. 2), base case, up (2 .. lv)
ExpectedTrace(lv) ==
    [k \in 1 .. 3 * (lv - 1) |-> <<DownOps[1 + ((k - 1) % 3)], lv - ((k - 1) \div 3)>>]
    \o <<<<"base_case", 1>>>>
    \o [k \in 1 .. 2 * (lv - 1) |-> <<UpOps[1 + ((k - 1) % 2)], 2 + ((k - 1) \div 2)>>]

IsPrefix(s, t) == Len(s) <= Len(t) /\ s = SubSeq(t, 1, Len(s))

Count(s, e) == Cardinality({k \in 1 .. Len(s) : s[k] = e})

\* C3: one V-cycle at level L performs exactly the operations
\* smoother, residual, restrict for l = L .. 2, the base case at level 1
\* once, prolongate, smoother for l = 2 .. L; it always has a next step until
\* it has returned; each level l > 1 is smoothed exactly twice and level 1
\* never.
C3_Trace ==
    /\ IsPrefix(trace, ExpectedTrace(L))
    /\ Len(stack) <= L
    /\ stack # <<>> => ENABLED VStep
    /\ CycleDone =>
          /\ trace = ExpectedTrace(L)
          /\ Count(trace, <<"base_case", 1>>) = 1
          /\ Count(trace, <<"smoother", 1>>) = 0
          /\ \A l \in 2 .. L :
                /\ Count(trace, <<"smoother", l>>) = 2
                /\ Count(trace, <<"poisson_residual", l>>) = 1
          /\ L = 1 => trace = <<<<"base_case", 1>>>>

\* a cycle over three or more levels has returned
C3_Witness == CycleDone /\ L >= 3 /\ Len(trace) = 5 * (L - 1) + 1

\* C4: whenever a recursive call multigrid_v_cycle(l - 1, ...) is entered,
\* in the first and in every later invocation, each of the (2^(l-1) + 1)^2
\* entries of the correction field passed as u is zero.
C4_ZeroCorrection ==
    (At("entry") /\ Len(stack) >= 2) =>
        \A k \in 0 .. (2 ^ Top.l + 1) * (2 ^ Top.l + 1) - 1 :
            Load(mem, Top.u.buf, Top.u.off + k) = "zero"

\* a recursive call is entered in a repeated invocation, the arena holding
\* what the previous cycle stored
C4_Witness ==
    /\ At("entry") /\ Len(stack) >= 2 /\ cycle >= 2
    /\ Top.u.buf = "v"

\* C8: the call at level l works on grid size 2^l + 1 and receives spacing
\* h * 2^(L-l), so spacing * (n(l) - 1) = h * (n(L) - 1) at every level.
C8_Spacing ==
    \A k \in 1 .. Len(stack) :
        LET fr == stack[k]
        IN /\ fr.l = L - k + 1
           /\ GridN(fr.l) = 2 ^ fr.l + 1
           /\ k >= 2 => \E c \in carved :
                 c.lvl = fr.l /\ Cardinality(c.el) = (2 ^ fr.l + 1) * (2 ^ fr.l + 1)
           /\ fr.h = RMul(h0, RInt(2 ^ (L - fr.l)))
           /\ RMul(fr.h, RInt((2 ^ fr.l + 1) - 1)) = RMul(h0, RInt((2 ^ L + 1) - 1))

\* the recursion has reached level 1 from a finest level of at least 3
C8_Witness == Len(stack) = L /\ L >= 3 /\ Top.l = 1 /\ Top.h # h0

UsedEl == UNION {c.el : c \in carved}

UsedRl == UNION {c.rl : c \in carved}

RECURSIVE SumSquares(_, _)
SumSquares(a, b) ==
    IF a > b THEN 0 ELSE (2 ^ a + 1) * (2 ^ a + 1) + SumSquares(a + 1, b)

\* C9 as stated: for L >= 2 every index of each arena belongs to the field
\* carved for some level during one V-cycle.
C9_Exact ==
    (CycleDone /\ L >= 2) =>
        /\ \A k \in 0 .. size.v - 1 : k \in UsedEl
        /\ \A k \in 0 .. size.w - 1 : k \in UsedRl

\* C9 amended: the arenas are sufficient, not exact.  For L >= 2 the fields
\* carved in one V-cycle lie inside the arena of multigrid_size(L) =
\* sum over i = 0..L of (2^i+1)^2 elements and cover exactly
\* sum over i = 1..L-1 of (2^i+1)^2 of its indices; indices 0..8 belong to
\* no field.
C9_Slack ==
    (CycleDone /\ L >= 2) =>
        /\ size.v = SumSquares(0, L) /\ size.w = SumSquares(0, L)
        /\ UsedEl \subseteq 0 .. size.v - 1 /\ UsedRl \subseteq 0 .. size.w - 1
        /\ Cardinality(UsedEl) = SumSquares(1, L - 1)
        /\ Cardinality(UsedRl) = SumSquares(1, L - 1)
        /\ UsedEl \cap (0 .. 8) = {} /\ UsedRl \cap (0 .. 8) = {}

\* a cycle at L >= 2 has finished with every level's field carved
C9_Witness == CycleDone /\ L >= 2 /\ Cardinality(carved) = L - 1

(***************************************************************************)
(* The numerical kernels, on fields  [0 .. n*n-1 -> T].                    *)
(***************************************************************************)
\* the store written one row up:  u[j + (i - 1) * n] = ...
gs_update_row_above(u, f, n, h, i, j) ==
    [u EXCEPT ![j + ((i - 1) * n)] =
        RMul(<<-1, 4>>,
             RSub(RSub(RSub(RSub(RMul(RMul(h, h), f[j + (i * n)]),
                                 u[j + 1 + (i * n)]), u[j - 1 + (i * n)]),
                       u[j + ((i + 1) * n)]), u[j + ((i - 1) * n)]))]

\* u[j + i * n] = -0.25 * (h * h * f[j + i * n] - u[j + 1 + i * n]
\*     - u[j - 1 + i * n] - u[j + (i + 1) * n] - u[j + (i - 1) * n])
gs_update(u, f, n, h, i, j) ==
    [u EXCEPT ![j + (i * n)] =
        RMul(<<-1, 4>>,
             RSub(RSub(RSub(RSub(RMul(RMul(h, h), f[j + (i * n)]),
                                 u[j + 1 + (i * n)]), u[j - 1 + (i * n)]),
                       u[j + ((i + 1) * n)]), u[j + ((i - 1) * n)]))]

RECURSIVE gs_loop(_, _, _, _, _)
gs_loop(u, f, n, h, k) ==
    IF k > Len(InteriorSeq(n)) THEN u
    ELSE gs_loop(gs_update(u, f, n, h, InteriorSeq(n)[k][1], InteriorSeq(n)[k][2]),
                 f, n, h, k + 1)

gauss_seidel(u, f, n, h) == gs_loop(u, f, n, h, 1)

\* the colour test left out: every point is updated in each pass
InPassAll(i, j, c) == TRUE

\* if ((i + j) % 2 == c), c = 0 in the first loop nest and 1 in the second
InPass(i, j, c) == (i + j) % 2 = c

RECURSIVE rb_loop(_, _, _, _, _, _)
rb_loop(u, f, n, h, c, k) ==
    IF k > Len(InteriorSeq(n)) THEN u
    ELSE LET i == InteriorSeq(n)[k][1]
             j == InteriorSeq(n)[k][2]
         IN rb_loop(IF InPass(i, j, c) THEN gs_update(u, f, n, h, i, j) ELSE u,
                    f, n, h, c, k + 1)

gauss_seidel_red_black(u, f, n, h) ==
    rb_loop(rb_loop(u, f, n, h, 0, 1), f, n, h, 1, 1)

\* the points a pass updates
PassPts(n, c) == {p \in InteriorPts(n) : InPass(p[1], p[2], c)}

\* r[j + i * n] = f[j + i * n] - (u[j + 1 + i * n] + u[j - 1 + i * n]
\*     + -4.0 * u[j + i * n] + u[j + (i + 1) * n] + u[j + (i - 1) * n]) * hi2
res_update(r, u, f, n, hi2, i, j) ==
    [r EXCEPT ![j + (i * n)] =
        RSub(f[j + (i * n)],
             RMul(RAdd(RAdd(RAdd(RAdd(u[j + 1 + (i * n)], u[j - 1 + (i * n)]),
                                 RMul(RInt(-4), u[j + (i * n)])),
                            u[j + ((i + 1) * n)]), u[j + ((i - 1) * n)]),
                  hi2))]

RECURSIVE res_loop(_, _, _, _, _, _)
res_loop(r, u, f, n, hi2, k) ==
    IF k > Len(InteriorSeq(n)) THEN r
    ELSE res_loop(res_update(r, u, f, n, hi2,
                             InteriorSeq(n)[k][1], InteriorSeq(n)[k][2]),
                  u, f, n, hi2, k + 1)

\* T hi2 = 1.0 / (h * h)
poisson_residual(r, u, f, n, h) == res_loop(r, u, f, n, RInv(RMul(h, h)), 1)

\* u[1 + 3 * 1] = -0.5 * f[1 + 3 * 1] * h * h
base_case(u, f, h) ==
    [u EXCEPT ![1 + 3 * 1] = RMul(RMul(RMul(<<-1, 2>>, f[1 + 3 * 1]), h), h)]

\* sin(s * h * j) with s * h = 2 pi modes / (n - 1) = q * pi / 2
SinQuarter(k) == <<0, 1, 0, -1>>[1 + (k % 4)]

\* u[j + n * i] = sin(s * h * j) * sin(s * h * i)
exact_solution(n, q) ==
    [k \in 0 .. n * n - 1 |-> RInt(SinQuarter(q * (k % n)) * SinQuarter(q * (k \div n)))]

\* grid_subtract(dst, a, b, n, m): dst = a - b elementwise
grid_subtract(a, b, n, m) == [k \in 0 .. n * m - 1 |-> RSub(a[k], b[k])]

RECURSIVE l1_sum(_, _)
l1_sum(x, k) == IF k < 0 THEN RZero ELSE RAdd(RAbs(x[k]), l1_sum(x, k - 1))

\* grid_l1norm(x, n, m, hx, hy): the L1 norm weighted by the cell area hx * hy
grid_l1norm(x, n, m, hx, hy) == RMul(l1_sum(x, n * m - 1), RMul(hx, hy))

(***************************************************************************)
(* KernelSpec: a problem of n x n fields u, f, r with spacing h, to which  *)
(* the smoothers, the residual operator, the base case and the Poisson     *)
(* diagnostics are applied.  A gauss_seidel_red_black call is run one      *)
(* point update at a time, the updates of a pass in any order.             *)
(***************************************************************************)
\* an n x n field of small integers
Pattern(n, a, b) == [k \in 0 .. n * n - 1 |-> RInt((((a * k) + b) % 7) - 2)]

IsBoundary(k, n) == (k \div n) \in {0, n - 1} \/ (k % n) \in {0, n - 1}

\* the same field with homogeneous Dirichlet boundary values
ZeroBoundary(x, n) == [k \in DOMAIN x |-> IF IsBoundary(k, n) THEN RZero ELSE x[k]]

ZeroField(n) == [k \in 0 .. n * n - 1 |-> RZero]

VIdle ==
    /\ L = 0 /\ F = "none" /\ h0 = RZero /\ cycle = 0 /\ stack = <<>>
    /\ mem = <<>> /\ size = <<>> /\ acc = <<>> /\ rel = <<>> /\ carved = {}
    /\ trace = <<>>

RBIdle == [pass |-> 0, pending |-> {}, start |-> <<>>, cnt |-> <<>>]

KInit ==
    /\ VIdle
    /\ kn \in 3 .. MaxN
    /\ kh \in Spacings
    /\ kq \in {1, 2}
    /\ ku0 \in {Pattern(kn, 1, 0), ZeroBoundary(Pattern(kn, 3, 1), kn)}
    /\ kf0 \in {Pattern(kn, 1, 2), ZeroField(kn)}
    /\ kr0 \in {ZeroField(kn), Pattern(kn, 2, 3)}
    /\ ku = ku0 /\ kf = kf0 /\ kr = kr0
    /\ kops = 0 /\ klast = "none"
    /\ rb = RBIdle
    /\ lastres = <<>> /\ normret = RZero /\ errret = RZero

CanCall == rb.pass = 0 /\ kops < MaxOps

\* GaussSeidel::operator(): gauss_seidel(u, f, n, h)
GS ==
    /\ CanCall
    /\ ku' = gauss_seidel(ku, kf, kn, kh)
    /\ kops' = kops + 1 /\ klast' = "gauss_seidel"
    /\ UNCHANGED <<vvars, kn, kh, kf, kr, ku0, kf0, kr0, rb, lastres, normret, errret, kq>>

\* GaussSeidelRedBlack::operator(): gauss_seidel_red_black is entered
RBCall ==
    /\ CanCall
    /\ rb' = [pass |-> 1, pending |-> PassPts(kn, 0), start |-> ku,
              cnt |-> [p \in InteriorPts(kn) |-> 0]]
    /\ kops' = kops + 1 /\ klast' = "running"
    /\ UNCHANGED <<vvars, kn, kh, ku, kf, kr, ku0, kf0, kr0, lastres, normret, errret, kq>>

\* one update of the running pass
RBUpdate ==
    /\ rb.pass \in {1, 2}
    /\ \E p \in rb.pending :
          /\ ku' = gs_update(ku, kf, kn, kh, p[1], p[2])
          /\ rb' = [rb EXCEPT !.pending = @ \ {p}, !.cnt[p] = @ + 1]
    /\ UNCHANGED <<vvars, kn, kh, kf, kr, ku0, kf0, kr0, kops, klast, lastres,
                   normret, errret, kq>>

\* the first loop nest has finished, the second begins
RBNextPass ==
    /\ rb.pass = 1 /\ rb.pending = {}
    /\ rb' = [rb EXCEPT !.pass = 2, !.pending = PassPts(kn, 1)]
    /\ UNCHANGED <<vvars, kn, kh, ku, kf, kr, ku0, kf0, kr0, kops, klast, lastres,
                   normret, errret, kq>>

\* gauss_seidel_red_black returns
RBReturn ==
    /\ rb.pass = 2 /\ rb.pending = {}
    /\ rb' = [rb EXCEPT !.pass = 0]
    /\ klast' = "gauss_seidel_red_black"
    /\ UNCHANGED <<vvars, kn, kh, ku, kf, kr, ku0, kf0, kr0, kops, lastres,
                   normret, errret, kq>>

\* Poisson::residual(): poisson_residual(r, u, f, n, h)
PResidual ==
    /\ CanCall
    /\ kr' = poisson_residual(kr, ku, kf, kn, kh)
    /\ lastres' = kr'
    /\ kops' = kops + 1 /\ klast' = "residual"
    /\ UNCHANGED <<vvars, kn, kh, ku, kf, ku0, kf0, kr0, rb, normret, errret, kq>>

\* Poisson::norm()
PNorm ==
    /\ CanCall
    /\ normret' = grid_l1norm(kr, kn, kn, kh, kh)
    /\ kops' = kops + 1 /\ klast' = "norm"
    /\ UNCHANGED <<vvars, kn, kh, ku, kf, kr, ku0, kf0, kr0, rb, lastres, errret, kq>>

\* Poisson::error()
PError ==
    /\ CanCall
    /\ kr' = grid_subtract(ku, exact_solution(kn, kq), kn, kn)
    /\ errret' = grid_l1norm(kr', kn, kn, kh, kh)
    /\ kops' = kops + 1 /\ klast' = "error"
    /\ UNCHANGED <<vvars, kn, kh, ku, kf, ku0, kf0, kr0, rb, lastres, normret, kq>>

\* base_case(u, f, h) on a 3 x 3 problem
KBaseCase ==
    /\ CanCall
    /\ kn = 3
    /\ ku' = base_case(ku, kf, kh)
    /\ kops' = kops + 1 /\ klast' = "base_case"
    /\ UNCHANGED <<vvars, kn, kh, kf, kr, ku0, kf0, kr0, rb, lastres, normret, errret, kq>>

SmootherNext ==
    \/ GS \/ RBCall \/ RBUpdate \/ RBNextPass \/ RBReturn \/ PResidual

\* the smoothers and the residual operator alone
SmootherSpec == KInit /\ [][SmootherNext]_vars

KernelNext ==
    \/ GS \/ RBCall \/ RBUpdate \/ RBNextPass \/ RBReturn \/ PResidual
    \/ PNorm \/ PError \/ KBaseCase

KernelSpec == KInit /\ [][KernelNext]_vars

(***************************************************************************)
(* Properties of the kernels and the Poisson container.                    *)
(***************************************************************************)
BoundaryIdx(n) == {k \in 0 .. n * n - 1 : IsBoundary(k, n)}

\* C5: after base_case on a 3 x 3 field with zero boundary, u[1,1] solves
\* the discrete equation at (1,1): the residual there is 0 and one
\* gauss_seidel sweep leaves u[1,1] unchanged.  (Checked under KernelSpec.)
C5_BaseCaseSolves ==
    (klast = "base_case" /\ \A k \in BoundaryIdx(3) : ku[k] = RZero) =>
        /\ poisson_residual(kr, ku, kf, 3, kh)[1 + 3 * 1] = RZero
        /\ gauss_seidel(ku, kf, 3, kh)[1 + 3 * 1] = ku[1 + 3 * 1]

\* C6: under any sequence of gauss_seidel, gauss_seidel_red_black and
\* poisson_residual calls every boundary entry of u and of r keeps its
\* initial value and f is never written.  (Checked under SmootherSpec.)
C6_BoundaryFrame ==
    /\ kf = kf0
    /\ DOMAIN ku = 0 .. kn * kn - 1 /\ DOMAIN kr = 0 .. kn * kn - 1
    /\ \A k \in BoundaryIdx(kn) : ku[k] = ku0[k] /\ kr[k] = kr0[k]

\* smoothers and the residual have changed the interior of u and of r, on a
\* field whose boundary values are not all zero
C6_Witness ==
    /\ kops >= 3 /\ rb.pass = 0
    /\ ku # ku0 /\ kr # kr0
    /\ \E k \in BoundaryIdx(kn) : ku0[k] # RZero
    /\ \E k \in BoundaryIdx(kn) : kr0[k] # RZero

PtIdx(S, n) == {Idx(p[1], p[2], n) : p \in S}

\* C7: in gauss_seidel_red_black no update of a pass reads an element the
\* same pass writes (pass 1 writes even i+j and reads odd i+j, pass 2 the
\* reverse); every interior point is updated exactly once per call, the red
\* points before any black point; and whatever the order of the updates
\* within each pass, the call returns the u the row-major loops compute.
\* (Checked under SmootherSpec.)
C7_PassIndependent ==
    /\ rb.pass \in {1, 2} =>
          /\ \A p \in PassPts(kn, rb.pass - 1) :
                /\ (p[1] + p[2]) % 2 = rb.pass - 1
                /\ Nbrs(p[1], p[2], kn) \cap PtIdx(PassPts(kn, rb.pass - 1), kn) = {}
                /\ \A q \in InteriorPts(kn) :
                      Idx(q[1], q[2], kn) \in Nbrs(p[1], p[2], kn)
                          => (q[1] + q[2]) % 2 = 2 - rb.pass
          /\ \A p \in InteriorPts(kn) :
                rb.cnt[p] = IF (p[1] + p[2]) % 2 = 0
                            THEN (IF rb.pass = 1 /\ p \in rb.pending THEN 0 ELSE 1)
                            ELSE (IF rb.pass = 2 /\ p \notin rb.pending THEN 1 ELSE 0)
    /\ klast = "gauss_seidel_red_black" =>
          /\ ku = gauss_seidel_red_black(rb.start, kf, kn, kh)
          /\ \A p \in InteriorPts(kn) : rb.cnt[p] = 1

\* a red-black call on a grid with several points of each colour has
\* returned and changed u
C7_Witness ==
    /\ klast = "gauss_seidel_red_black" /\ rb.pass = 0
    /\ kn >= 4
    /\ ku # rb.start

\* C10: norm() returns the weighted L1 norm of the residual written by the
\* most recent residual() call, whether or not error() was called in
\* between.  (Checked under KernelSpec.)
C10_ErrorPure ==
    (klast = "norm" /\ lastres # <<>>) =>
        normret = grid_l1norm(lastres, kn, kn, kh, kh)

====
